---- MODULE Spec2Model ----
(***************************************************************************)
(* A model of evaluator/value.go: the Value wrappers of the Liquid         *)
(* expression evaluator.  Host data (Go interface{} values) are records    *)
(* carrying their reflect.Kind and their dynamic type; a call either       *)
(* returns or panics, and both outcomes are values of the model.           *)
(***************************************************************************)
EXTENDS Integers, Sequences, FiniteSets, TLC

VARIABLES recv, index, op, result

vars == <<recv, index, op, result>>

(***************************************************************************)
(* Bounds of the model.                                                    *)
(***************************************************************************)
\* longest slice that is wrapped
MaxLen == 3
\* most entries a wrapped map holds
MaxEntries == 2

(***************************************************************************)
(* Outcomes of a call: a return value or a panic with its payload.         *)
(***************************************************************************)
Ret(v) == [panic |-> FALSE, ret |-> v]

Panic(p) == [panic |-> TRUE, payload |-> p]

(***************************************************************************)
(* reflect.Kind, in the order package reflect declares the kinds.          *)
(***************************************************************************)
KindOrd ==
  [k \in {"Invalid", "Bool", "Int", "Int8", "Int16", "Int32", "Int64", "Uint",
          "Uint8", "Uint16", "Uint32", "Uint64", "Uintptr", "Float32",
          "Float64", "Complex64", "Complex128", "Array", "Chan", "Func",
          "Interface", "Map", "Ptr", "Slice", "String", "Struct",
          "UnsafePointer"} |->
     CASE k = "Invalid" -> 0 [] k = "Bool" -> 1 [] k = "Int" -> 2
       [] k = "Int8" -> 3 [] k = "Int16" -> 4 [] k = "Int32" -> 5
       [] k = "Int64" -> 6 [] k = "Uint" -> 7 [] k = "Uint8" -> 8
       [] k = "Uint16" -> 9 [] k = "Uint32" -> 10 [] k = "Uint64" -> 11
       [] k = "Uintptr" -> 12 [] k = "Float32" -> 13 [] k = "Float64" -> 14
       [] k = "Complex64" -> 15 [] k = "Complex128" -> 16 [] k = "Array" -> 17
       [] k = "Chan" -> 18 [] k = "Func" -> 19 [] k = "Interface" -> 20
       [] k = "Map" -> 21 [] k = "Ptr" -> 22 [] k = "Slice" -> 23
       [] k = "String" -> 24 [] k = "Struct" -> 25
       [] k = "UnsafePointer" -> 26]

(***************************************************************************)
(* Host data.  kind is reflect.TypeOf(x).Kind(), type the dynamic type.    *)
(***************************************************************************)
\* the nil interface value
NilD == [kind |-> "Invalid", type |-> "nil"]

BoolD(t, b) == [kind |-> "Bool", type |-> t, b |-> b]

IntD(k, t, n) == [kind |-> k, type |-> t, n |-> n]

FloatD(k, t, f) == [kind |-> k, type |-> t, f |-> f]

StringD(s) == [kind |-> "String", type |-> "string", s |-> s]

SliceD(es) == [kind |-> "Slice", type |-> "[]interface {}", elems |-> es]

ArrayD(es) == [kind |-> "Array", type |-> "[n]interface {}", elems |-> es]

MapD(kt, m) == [kind |-> "Map", type |-> "map", keyType |-> kt, entries |-> m]

\* a non-nil pointer: elemKind is the kind of the pointed-to type
PtrD(ek, et, target) ==
  [kind |-> "Ptr", type |-> "*" \o et, elemKind |-> ek, elem |-> et,
   isNil |-> FALSE, target |-> target]

NilPtrD(ek, et) ==
  [kind |-> "Ptr", type |-> "*" \o et, elemKind |-> ek, elem |-> et,
   isNil |-> TRUE]

\* a datum of a kind ValueOf has no case for
OtherD(k, t) == [kind |-> k, type |-> t]

(***************************************************************************)
(* The Value variants: each embeds wrapperValue{basis}.                    *)
(***************************************************************************)
wrapperValue(basis) == [variant |-> "wrapperValue", basis |-> basis]

arrayValue(basis) == [variant |-> "arrayValue", basis |-> basis]

mapValue(basis) == [variant |-> "mapValue", basis |-> basis]

stringValue(basis) == [variant |-> "stringValue", basis |-> basis]

structValue(basis) == [variant |-> "structValue", basis |-> basis]

nilValue == wrapperValue(NilD)

falseValue == wrapperValue(BoolD("bool", FALSE))

trueValue == wrapperValue(BoolD("bool", TRUE))

\* a host datum that already implements the Value interface
ValueD(v) == [kind |-> "Struct", type |-> "evaluator.Value", value |-> v]

IsValue(d) == "value" \in DOMAIN d

\* Value.Interface()
Interface(v) == v.basis

(***************************************************************************)
(* ValueOf                                                                 *)
(***************************************************************************)
RECURSIVE ValueOf(_)
ValueOf(value) ==
  IF value = NilD THEN Ret(nilValue)
  ELSE IF value = BoolD("bool", TRUE) THEN Ret(trueValue)
  ELSE IF value = BoolD("bool", FALSE) THEN Ret(falseValue)
  ELSE IF IsValue(value) THEN Ret(value.value)
  ELSE IF KindOrd[value.kind] <= KindOrd["Float64"]
    THEN Ret(wrapperValue(value))
  ELSE CASE value.kind = "Ptr" ->
              IF value.elemKind = "Struct" THEN Ret(structValue(value))
              ELSE IF value.isNil
                THEN Panic("reflect: call of reflect.Value.Interface on zero Value")
              ELSE ValueOf(value.target)
         [] value.kind = "String" -> Ret(stringValue(value))
         [] value.kind \in {"Array", "Slice"} -> Ret(arrayValue(value))
         [] value.kind = "Map" -> Ret(mapValue(value))
         [] value.kind = "Struct" -> Ret(structValue(value))
         [] OTHER -> Ret(wrapperValue(value))

(***************************************************************************)
(* wrapperValue methods, inherited by every variant                        *)
(***************************************************************************)
wrapperValue_Test(v) == Ret(v.basis # NilD /\ v.basis # BoolD("bool", FALSE))

conversionError(value, typ) ==
  [error |-> "ConversionError", value |-> value, target |-> typ]

wrapperValue_Int(v) ==
  IF v.basis.type = "int" THEN Ret(v.basis.n)
  ELSE Panic(conversionError(v.basis, "int"))

wrapperValue_IndexValue(v, i) == Ret(nilValue)

wrapperValue_Contains(v, i) == Ret(FALSE)

wrapperValue_PropertyValue(v, i) == Ret(nilValue)

(***************************************************************************)
(* arrayValue                                                              *)
(***************************************************************************)
\* rv.Len()
Len_(basis) == Len(basis.elems)

arrayValue_IndexValue(v, i) ==
  IF Interface(i).type = "int"
    THEN LET n0 == Interface(i).n
             n == IF n0 < 0 THEN n0 + Len_(v.basis) ELSE n0
         IN IF 0 <= n /\ n < Len_(v.basis)
              THEN ValueOf(v.basis.elems[n + 1])
              ELSE Ret(nilValue)
    ELSE Ret(nilValue)

firstKey == StringD("first")

lastKey == StringD("last")

sizeKey == StringD("size")

\* ValueOf(rv.Len()): a length is a host int
LenValue(n) == ValueOf(IntD("Int", "int", n))

\* arrayValue.PropertyValue with the last case reading the first element
arrayValue_PropertyValue_lastIsFirst(v, i) ==
  CASE Interface(i) = firstKey ->
         IF Len_(v.basis) > 0 THEN ValueOf(v.basis.elems[1]) ELSE Ret(nilValue)
    [] Interface(i) = lastKey ->
         IF Len_(v.basis) > 0 THEN ValueOf(v.basis.elems[1]) ELSE Ret(nilValue)
    [] Interface(i) = sizeKey -> LenValue(Len_(v.basis))
    [] OTHER -> Ret(nilValue)

arrayValue_PropertyValue(v, i) ==
  CASE Interface(i) = firstKey ->
         IF Len_(v.basis) > 0 THEN ValueOf(v.basis.elems[1]) ELSE Ret(nilValue)
    [] Interface(i) = lastKey ->
         IF Len_(v.basis) > 0 THEN ValueOf(v.basis.elems[Len_(v.basis)])
         ELSE Ret(nilValue)
    [] Interface(i) = sizeKey -> LenValue(Len_(v.basis))
    [] OTHER -> Ret(nilValue)

(***************************************************************************)
(* mapValue                                                                *)
(***************************************************************************)
\* reflect.Value.Type() of reflect.ValueOf(x): panics on the zero Value,
\* which is what reflect.ValueOf(nil) is
ZeroValueTypePanic == Panic("reflect: call of reflect.Value.Type on zero Value")

\* rv.MapIndex(iv).IsValid(), for a key of the map's key type
MapHas(basis, key) == key \in DOMAIN basis.entries

mapValue_Contains(v, i) ==
  IF Interface(i) = NilD THEN ZeroValueTypePanic
  ELSE IF v.basis.keyType = Interface(i).type
    THEN Ret(MapHas(v.basis, Interface(i)))
  ELSE Ret(FALSE)

mapValue_IndexValue(v, i) ==
  IF Interface(i) = NilD THEN ZeroValueTypePanic
  ELSE IF v.basis.keyType = Interface(i).type /\ MapHas(v.basis, Interface(i))
    THEN ValueOf(v.basis.entries[Interface(i)])
  ELSE Ret(nilValue)

\* Value.assignTo, as MapIndex applies it to its key: the key's type must be
\* the map's key type or implement it
AssignableTo(d, keyType) ==
  d # NilD /\ (d.type = keyType \/ keyType = "interface {}")

\* the runtime's hash of an interface-typed key panics on these kinds
Hashable(d) == d.kind \notin {"Slice", "Map", "Func"}

mapValue_PropertyValue(v, i) ==
  IF ~AssignableTo(Interface(i), v.basis.keyType)
    THEN Panic("reflect.Value.MapIndex: value is not assignable to the key type")
  ELSE IF ~Hashable(Interface(i))
    THEN Panic("runtime error: hash of unhashable type")
  ELSE IF MapHas(v.basis, Interface(i))
    THEN ValueOf(v.basis.entries[Interface(i)])
  ELSE IF Interface(i) = sizeKey
    THEN LenValue(Cardinality(DOMAIN v.basis.entries))
  ELSE Ret(nilValue)

(***************************************************************************)
(* Records: struct types as package reflect sees them.                     *)
(***************************************************************************)
\* a func value: its signature and, when it is called, its results, each
\* with the kind of its declared type
FuncD(isNil, numIn, results) ==
  [kind |-> "Func", type |-> "func", isNil |-> isNil, numIn |-> numIn,
   numOut |-> Len(results), results |-> results]

Out(declKind, val) == [declKind |-> declKind, val |-> val]

\* a failure an accessor reports as its second result
ErrD == [kind |-> "Ptr", type |-> "*errors.errorString", elemKind |-> "Struct",
         elem |-> "errors.errorString", isNil |-> FALSE, msg |-> "boom"]

StructD(t, vals) == [kind |-> "Struct", type |-> t, vals |-> vals]

\* the reflect.Value of a func member: fn is the func, method says it came
\* from MethodByName (flagMethod), ro that it came from an unexported field
\* (flagRO), nilRecv that it is a value method bound to a nil pointer
Fv(fn, method, ro, nilRecv) ==
  [fn |-> fn, method |-> method, ro |-> ro, nilRecv |-> nilRecv]

\* The struct types of the model.  fields is what FieldByName finds (promoted
\* and unexported fields included), methods the exported methods, each with
\* its receiver kind.  Rec declares the method Both and embeds a struct with
\* a field Both.
StructTypes ==
  [t \in {"Rec"} |->
     [fields |->
        [n \in {"Name", "secret", "Get", "Unset", "hook", "Both", "Next"} |->
           [exported |-> n \notin {"secret", "hook"}]],
      methods |->
        [n \in {"Title", "Both", "Fail", "Ok2", "Void", "Arg", "Three", "Pair",
                "PtrOnly"} |->
           CASE n = "Title" ->
                  [ptrRecv |-> FALSE,
                   fn |-> FuncD(FALSE, 0, <<Out("String", StringD("T"))>>)]
             [] n = "Both" ->
                  [ptrRecv |-> FALSE,
                   fn |-> FuncD(FALSE, 0, <<Out("Int", IntD("Int", "int", 6))>>)]
             [] n = "Fail" ->
                  [ptrRecv |-> FALSE,
                   fn |-> FuncD(FALSE, 0, <<Out("Interface", NilD),
                                            Out("Interface", ErrD)>>)]
             [] n = "Ok2" ->
                  [ptrRecv |-> FALSE,
                   fn |-> FuncD(FALSE, 0, <<Out("Int", IntD("Int", "int", 2)),
                                            Out("Interface", NilD)>>)]
             [] n = "Void" ->
                  [ptrRecv |-> FALSE, fn |-> FuncD(FALSE, 0, <<>>)]
             [] n = "Arg" ->
                  [ptrRecv |-> FALSE,
                   fn |-> FuncD(FALSE, 1, <<Out("Int", IntD("Int", "int", 3))>>)]
             [] n = "Three" ->
                  [ptrRecv |-> FALSE,
                   fn |-> FuncD(FALSE, 0, <<Out("Int", IntD("Int", "int", 1)),
                                            Out("Interface", NilD),
                                            Out("Interface", NilD)>>)]
             [] n = "Pair" ->
                  [ptrRecv |-> FALSE,
                   fn |-> FuncD(FALSE, 0, <<Out("Int", IntD("Int", "int", 1)),
                                            Out("Int", IntD("Int", "int", 2))>>)]
             [] n = "PtrOnly" ->
                  [ptrRecv |-> TRUE,
                   fn |-> FuncD(FALSE, 0, <<Out("Int", IntD("Int", "int", 9))>>)]]]]

\* rt.FieldByName(name), rt a struct type
FieldByName(t, name) == name \in DOMAIN StructTypes[t].fields

\* rt.MethodByName(name): the method set of T holds the value-receiver
\* methods, that of *T the pointer-receiver methods as well
MethodByName(t, viaPtr, name) ==
  /\ name \in DOMAIN StructTypes[t].methods
  /\ (viaPtr \/ ~StructTypes[t].methods[name].ptrRecv)

\* reflect.Value.IsNil of a call result or member
IsNil(r) == IF r.declKind = "Interface" THEN r.val = NilD ELSE r.val.isNil

Nillable(kind) ==
  kind \in {"Chan", "Func", "Interface", "Map", "Ptr", "Slice", "UnsafePointer"}

(***************************************************************************)
(* structValue                                                             *)
(***************************************************************************)
invoke(fv) ==
  IF ~fv.method /\ fv.fn.isNil THEN Ret(nilValue)
  ELSE IF fv.fn.numIn > 0 \/ fv.fn.numOut > 2 THEN Ret(nilValue)
  ELSE IF fv.ro
    THEN Panic("reflect: reflect.Value.Call using value obtained using unexported field")
  ELSE IF fv.nilRecv
    THEN Panic("value method called using nil pointer")
  ELSE LET results == fv.fn.results
       IN IF Len(results) > 1 /\ ~Nillable(results[2].declKind)
            THEN Panic("reflect: call of reflect.Value.IsNil on a value that has no nil")
          ELSE IF Len(results) > 1 /\ ~IsNil(results[2])
            THEN Panic(results[2].val)
          ELSE IF Len(results) = 0
            THEN Panic("runtime error: index out of range [0] with length 0")
          ELSE ValueOf(results[1].val)

\* the struct type behind a structValue's basis, a struct or a pointer to one
ElemType(basis) == IF basis.kind = "Ptr" THEN basis.elem ELSE basis.type

structValue_Contains(v, elem) ==
  IF Interface(elem).type # "string" THEN Ret(FALSE)
  ELSE LET name == Interface(elem).s
           rt == ElemType(v.basis)
       IN IF FieldByName(rt, name) THEN Ret(TRUE)
          ELSE IF MethodByName(rt, FALSE, name) THEN Ret(TRUE)
          ELSE Ret(FALSE)

\* rv.MethodByName(name) on the basis itself
MethodValue(basis, name) ==
  LET m == StructTypes[ElemType(basis)].methods[name]
  IN Fv(m.fn, TRUE, FALSE, basis.kind = "Ptr" /\ basis.isNil /\ ~m.ptrRecv)

structValue_PropertyValue(v, i) ==
  IF Interface(i).type # "string" THEN Ret(nilValue)
  ELSE
    LET name == Interface(i).s
        isPtr == v.basis.kind = "Ptr"
        rt == ElemType(v.basis)
    IN IF MethodByName(rt, isPtr, name) THEN invoke(MethodValue(v.basis, name))
       ELSE IF FieldByName(rt, name)
         THEN IF isPtr /\ v.basis.isNil
                THEN Panic("reflect: call of reflect.Value.FieldByName on zero Value")
              ELSE LET rv == IF isPtr THEN v.basis.target ELSE v.basis
                       fv == rv.vals[name]
                       ro == ~StructTypes[rt].fields[name].exported
                   IN IF fv.kind = "Func" THEN invoke(Fv(fv, FALSE, ro, FALSE))
                      ELSE IF ro
                        THEN Panic("reflect.Value.Interface: cannot return value obtained from unexported field or method")
                      ELSE ValueOf(fv)
       ELSE IF MethodByName(rt, FALSE, name)
         THEN invoke(MethodValue(IF isPtr THEN v.basis.target ELSE v.basis, name))
       ELSE Ret(nilValue)

structValue_IndexValue(v, i) == structValue_PropertyValue(v, i)

(***************************************************************************)
(* The host data, probes and members the operations are applied to.        *)
(***************************************************************************)
I(n) == IntD("Int", "int", n)

IntTypes ==
  {<<"Int", "int">>, <<"Int8", "int8">>, <<"Int16", "int16">>,
   <<"Int32", "int32">>, <<"Int64", "int64">>, <<"Uint", "uint">>,
   <<"Uint8", "uint8">>, <<"Uint16", "uint16">>, <<"Uint32", "uint32">>,
   <<"Uint64", "uint64">>}

\* Flag is a defined type whose underlying type is bool
Bools == {BoolD(t, b) : t \in {"bool", "Flag"}, b \in BOOLEAN}

Ints == {IntD(kt[1], kt[2], n) : kt \in IntTypes, n \in {0, 7}}

Floats == {FloatD("Float64", "float64", "3.5"), FloatD("Float32", "float32", "0.0")}

Names ==
  {"Name", "secret", "Get", "Unset", "hook", "Both", "Next", "Title", "Fail",
   "Ok2", "Void", "Arg", "Three", "Pair", "PtrOnly", "Missing"}

Strings == {StringD(s) : s \in {"", "a", "b", "size", "first", "last"} \cup Names}

Scalars == {NilD} \cup Bools \cup Ints \cup Floats \cup Strings

NilIntPtr == NilPtrD("Int", "int")

SeqElems == {I(10), I(20), BoolD("bool", FALSE), NilIntPtr}

SeqsOfLen(n) == [1..n -> SeqElems]

Slices == {SliceD(es) : es \in UNION {SeqsOfLen(n) : n \in 0..MaxLen}}

Arrays == {ArrayD(<<I(10), I(20)>>)}

MapVals == {I(1), StringD("x")}

KeySets ==
  [kt \in {"string", "int", "interface {}"} |->
     CASE kt = "string" -> {StringD("a"), StringD("b"), StringD("size")}
       [] kt = "int" -> {I(1), I(2)}
       [] kt = "interface {}" -> {StringD("a"), I(1)}]

\* the maps of one key type: at most MaxEntries of its keys, each with a value
MapsOf(kt) ==
  {MapD(kt, m) :
     m \in UNION {[K -> MapVals] :
                    K \in {J \in SUBSET KeySets[kt] : Cardinality(J) <= MaxEntries}}}

Maps == UNION {MapsOf(kt) : kt \in DOMAIN KeySets}

RecV ==
  StructD("Rec",
          [n \in DOMAIN StructTypes["Rec"].fields |->
             CASE n = "Name" -> StringD("liquid")
               [] n = "secret" -> StringD("s3cret")
               [] n = "Get" -> FuncD(FALSE, 0, <<Out("Int", I(4))>>)
               [] n = "Unset" -> FuncD(TRUE, 0, <<>>)
               [] n = "hook" -> FuncD(FALSE, 0, <<Out("Int", I(8))>>)
               [] n = "Both" -> I(5)
               [] n = "Next" -> NilIntPtr])

Structs == {RecV, PtrD("Struct", "Rec", RecV), NilPtrD("Struct", "Rec")}

Pointers ==
  {PtrD("Int", "int", I(7)), NilIntPtr,
   PtrD("Bool", "bool", BoolD("bool", FALSE)),
   PtrD("Bool", "bool", BoolD("bool", TRUE)),
   PtrD("Bool", "Flag", BoolD("Flag", FALSE)),
   PtrD("Interface", "interface {}", NilD),
   PtrD("Ptr", "*bool", PtrD("Bool", "bool", BoolD("bool", FALSE))),
   PtrD("Ptr", "*int", NilIntPtr),
   PtrD("String", "string", StringD("")),
   PtrD("Slice", "[]interface {}", SliceD(<<>>)),
   NilPtrD("Map", "map")}

FirstOuts == {Out("Int", I(1)), Out("Interface", NilD)}

SecondOuts == {Out("Interface", NilD), Out("Interface", ErrD), Out("Int", I(2))}

ResultLists ==
  {<<>>} \cup {<<a>> : a \in FirstOuts}
         \cup {<<a, b>> : a \in FirstOuts, b \in SecondOuts}
         \cup {<<a, b, b>> : a \in FirstOuts, b \in SecondOuts}

Funcs ==
  {FuncD(FALSE, numIn, rs) : numIn \in {0, 1}, rs \in ResultLists}
    \cup {FuncD(TRUE, 0, <<>>)}

Others ==
  {OtherD("Complex128", "complex128"), OtherD("Chan", "chan int"),
   OtherD("UnsafePointer", "unsafe.Pointer"), IntD("Uintptr", "uintptr", 0)}

Values ==
  {ValueD(v) : v \in {nilValue, falseValue, trueValue, wrapperValue(I(7)),
                      arrayValue(SliceD(<<>>))}}

HostData ==
  Scalars \cup Slices \cup Arrays \cup Maps \cup Structs \cup Pointers
          \cup Funcs \cup Others \cup Values

\* the member references invoke is handed: func fields and bound methods
Members ==
  {Fv(f, FALSE, FALSE, FALSE) : f \in Funcs}
    \cup {Fv(f, TRUE, FALSE, FALSE) : f \in {g \in Funcs : ~g.isNil}}

IsMember(x) == "fn" \in DOMAIN x

ProbeData ==
  {NilD, BoolD("bool", TRUE), FloatD("Float64", "float64", "3.5"),
   SliceD(<<>>), IntD("Int64", "int64", 0), IntD("Int64", "int64", 1)}
    \cup {I(n) : n \in (0 - MaxLen - 1)..MaxLen}
    \cup Strings

Probes == {ValueOf(d).ret : d \in ProbeData}

(***************************************************************************)
(* The state machine: recv is the host datum handed to ValueOf (or the     *)
(* member reference handed to invoke), index the probe Value, op the last  *)
(* call made and result its outcome.  A method is called on ValueOf(recv), *)
(* so a panic of ValueOf is the outcome of the whole call.                 *)
(***************************************************************************)
Init ==
  /\ recv \in HostData \cup Members
  /\ index \in Probes
  /\ op = "new"
  /\ result = Ret(nilValue)

\* the variant ValueOf(recv) has, "none" when there is no Value
Variant(x) ==
  IF IsMember(x) \/ ValueOf(x).panic THEN "none" ELSE ValueOf(x).ret.variant

Done(name, outcome) ==
  /\ op' = name
  /\ result' = outcome
  /\ UNCHANGED <<recv, index>>

CallValueOf ==
  /\ ~IsMember(recv)
  /\ Done("ValueOf", ValueOf(recv))

CallTest ==
  /\ ~IsMember(recv)
  /\ Done("Test", IF ValueOf(recv).panic THEN ValueOf(recv)
                  ELSE wrapperValue_Test(ValueOf(recv).ret))

CallInt ==
  /\ ~IsMember(recv)
  /\ Done("Int", IF ValueOf(recv).panic THEN ValueOf(recv)
                 ELSE wrapperValue_Int(ValueOf(recv).ret))

CallWrapperIndexValue ==
  /\ Variant(recv) \in {"wrapperValue", "stringValue"}
  /\ Done("wrapperValue.IndexValue",
          wrapperValue_IndexValue(ValueOf(recv).ret, index))

CallWrapperContains ==
  /\ Variant(recv) = "wrapperValue"
  /\ Done("wrapperValue.Contains",
          wrapperValue_Contains(ValueOf(recv).ret, index))

CallWrapperPropertyValue ==
  /\ Variant(recv) = "wrapperValue"
  /\ Done("wrapperValue.PropertyValue",
          wrapperValue_PropertyValue(ValueOf(recv).ret, index))

CallArrayIndexValue ==
  /\ Variant(recv) = "arrayValue"
  /\ Done("arrayValue.IndexValue",
          arrayValue_IndexValue(ValueOf(recv).ret, index))

CallArrayPropertyValue ==
  /\ Variant(recv) = "arrayValue"
  /\ Done("arrayValue.PropertyValue",
          arrayValue_PropertyValue(ValueOf(recv).ret, index))

CallMapContains ==
  /\ Variant(recv) = "mapValue"
  /\ Done("mapValue.Contains", mapValue_Contains(ValueOf(recv).ret, index))

CallMapIndexValue ==
  /\ Variant(recv) = "mapValue"
  /\ Done("mapValue.IndexValue", mapValue_IndexValue(ValueOf(recv).ret, index))

CallMapPropertyValue ==
  /\ Variant(recv) = "mapValue"
  /\ Done("mapValue.PropertyValue",
          mapValue_PropertyValue(ValueOf(recv).ret, index))

CallStructContains ==
  /\ Variant(recv) = "structValue"
  /\ Done("structValue.Contains",
          structValue_Contains(ValueOf(recv).ret, index))

CallStructIndexValue ==
  /\ Variant(recv) = "structValue"
  /\ Done("structValue.IndexValue",
          structValue_IndexValue(ValueOf(recv).ret, index))

CallStructPropertyValue ==
  /\ Variant(recv) = "structValue"
  /\ Done("structValue.PropertyValue",
          structValue_PropertyValue(ValueOf(recv).ret, index))

CallInvoke ==
  /\ IsMember(recv)
  /\ Done("invoke", invoke(recv))

Next ==
  \/ CallValueOf
  \/ CallTest
  \/ CallInt
  \/ CallWrapperIndexValue
  \/ CallWrapperContains
  \/ CallWrapperPropertyValue
  \/ CallArrayIndexValue
  \/ CallArrayPropertyValue
  \/ CallMapContains
  \/ CallMapIndexValue
  \/ CallMapPropertyValue
  \/ CallStructContains
  \/ CallStructIndexValue
  \/ CallStructPropertyValue
  \/ CallInvoke

Spec == Init /\ [][Next]_vars

(***************************************************************************)
(* Properties.  Each is stated over the outcome of the last call.          *)
(***************************************************************************)
\* the Value the last method was called on, and the probe's host datum
Self == ValueOf(recv).ret

Probe == Interface(index)

IntegerKinds == {kt[1] : kt \in IntTypes}

\* C1: a Mapping lookup never aborts, whatever the probe (Nil included):
\* Contains is true iff the probe's concrete type is the declared key type
\* and the key is present, IndexValue returns the classified entry in that
\* case and Nil otherwise.
C1_MapLookupNeverAborts ==
  LET hit == Probe.type = Self.basis.keyType /\ Probe \in DOMAIN Self.basis.entries
  IN /\ op = "mapValue.Contains" => result = Ret(hit)
     /\ op = "mapValue.IndexValue" =>
          /\ ~result.panic
          /\ result = IF hit THEN ValueOf(Self.basis.entries[Probe])
                      ELSE Ret(nilValue)

\* C2: ValueOf is total: it returns a Value for every host datum, nil
\* pointers included; a pointer to a struct is a Record, any other pointer
\* has the Value of what it points to, an unrecognized kind is a plain
\* wrapper.
C2_ValueOfTotal ==
  op = "ValueOf" =>
    /\ ~result.panic
    /\ recv.kind = "Ptr" /\ recv.elemKind = "Struct" =>
         result = Ret(structValue(recv))
    /\ recv.kind = "Ptr" /\ recv.elemKind # "Struct" /\ ~recv.isNil =>
         result = ValueOf(recv.target)
    /\ recv.kind \in {"Complex64", "Complex128", "Chan", "Func", "UnsafePointer"} =>
         result = Ret(wrapperValue(recv))

\* C3: invoke aborts only when the accessor reports failure: Nil for an
\* unset member, Nil for a member with arguments or more than two results,
\* and for zero arguments and zero, one or two results the classified first
\* result, unless a second result signals failure, which is then the abort.
C3_InvokeAbortsOnlyOnFailure ==
  op = "invoke" =>
    LET fn == recv.fn
        unset == ~recv.method /\ fn.isNil
        fails == fn.numOut = 2 /\ fn.results[2].val # NilD
    IN IF unset \/ fn.numIn > 0 \/ fn.numOut > 2 THEN result = Ret(nilValue)
       ELSE IF fails THEN result = Panic(fn.results[2].val)
       ELSE /\ ~result.panic
            /\ fn.numOut > 0 => result = ValueOf(fn.results[1].val)

\* C4: Int() returns the integer of a Value made from a host integer of any
\* width, and aborts with a conversion error naming int and the value for a
\* float, a string, a sequence, a mapping, a record, Nil or a boolean.
C4_IntOfEveryIntegerWidth ==
  op = "Int" =>
    /\ recv.kind \in IntegerKinds => result = Ret(recv.n)
    /\ recv.kind \in {"Float32", "Float64", "String", "Slice", "Array", "Map",
                      "Bool", "Invalid"}
         \/ (recv.kind = "Struct" /\ ~IsValue(recv)) =>
         result = Panic(conversionError(recv, "int"))

\* C5: PropertyValue of a Mapping never aborts, whatever the key type and
\* the probe: the classified entry for a present key, otherwise the entry
\* count for the name size, otherwise Nil.
C5_MapPropertyNeverAborts ==
  op = "mapValue.PropertyValue" =>
    /\ ~result.panic
    /\ result = IF Probe \in DOMAIN Self.basis.entries
                  THEN ValueOf(Self.basis.entries[Probe])
                ELSE IF Probe = StringD("size")
                  THEN Ret(wrapperValue(I(Cardinality(DOMAIN Self.basis.entries))))
                ELSE Ret(nilValue)

\* C6: Contains of a Record is false for a probe that is no name, and
\* otherwise true iff PropertyValue would resolve the name to a field or to
\* a method, methods available only through the pointer included.
C6_RecordContainsWhatResolves ==
  op = "structValue.Contains" =>
    result = Ret(/\ Probe.type = "string"
                 /\ \/ FieldByName(ElemType(Self.basis), Probe.s)
                    \/ MethodByName(ElemType(Self.basis),
                                    Self.basis.kind = "Ptr", Probe.s))

\* the struct a Record wraps; a nil pointer wraps none
Wrapped(basis) == IF basis.kind = "Ptr" THEN basis.target ELSE basis

\* C7: a Record resolves a name to its method first, then to its field
\* (whose classified value is returned, or which is invoked when it holds a
\* function), then to Nil; a probe that is no name yields Nil; IndexValue
\* does the same; the method check after the field lookup changes nothing.
C7_RecordMethodBeforeField ==
  op \in {"structValue.PropertyValue", "structValue.IndexValue"} =>
    LET rt == ElemType(Self.basis)
        isPtr == Self.basis.kind = "Ptr"
    IN IF Probe.type # "string" THEN result = Ret(nilValue)
       ELSE IF MethodByName(rt, isPtr, Probe.s)
         THEN result = invoke(MethodValue(Self.basis, Probe.s))
       ELSE IF FieldByName(rt, Probe.s)
         THEN IF isPtr /\ Self.basis.isNil THEN ~result.panic
              ELSE LET f == Wrapped(Self.basis).vals[Probe.s]
                   IN result = IF f.kind = "Func"
                                 THEN invoke(Fv(f, FALSE, FALSE, FALSE))
                               ELSE ValueOf(f)
       ELSE result = Ret(nilValue)

\* nil, a boolean false, or a pointer (or Value) leading to one of them
RECURSIVE Falsy(_)
Falsy(x) ==
  \/ x = NilD
  \/ x.kind = "Bool" /\ ~x.b
  \/ IsValue(x) /\ Falsy(x.value.basis)
  \/ x.kind = "Ptr" /\ x.elemKind # "Struct" /\ ~x.isNil /\ Falsy(x.target)

\* C8: ValueOf(x).Test() is false iff x is nil or a boolean false (also
\* behind a pointer), and true for every other classified value.
C8_OnlyNilAndFalseAreFalsy ==
  op = "Test" =>
    /\ result = Ret(FALSE) <=> Falsy(recv)
    /\ ~Falsy(recv) /\ ~ValueOf(recv).panic => result = Ret(TRUE)

\* C9: IndexValue of a Sequence of length n never aborts: for an integer
\* index i it returns the classified element at i when 0 <= i < n, at i + n
\* when -n <= i < 0, and Nil otherwise; a non-integer probe yields Nil.
C9_SequenceIndexNeverAborts ==
  op = "arrayValue.IndexValue" =>
    LET n == Len(Self.basis.elems)
    IN /\ ~result.panic
       /\ result = IF Probe.kind \in IntegerKinds /\ 0 <= Probe.n /\ Probe.n < n
                     THEN ValueOf(Self.basis.elems[Probe.n + 1])
                   ELSE IF Probe.kind \in IntegerKinds
                           /\ 0 - n <= Probe.n /\ Probe.n < 0
                     THEN ValueOf(Self.basis.elems[Probe.n + n + 1])
                   ELSE Ret(nilValue)

\* C10: PropertyValue of a Sequence knows exactly first, last and size: size
\* is the element count, first and last are what IndexValue(0) and
\* IndexValue(-1) are (Nil on the empty sequence), anything else is Nil.
C10_SequenceProperties ==
  op = "arrayValue.PropertyValue" =>
    LET n == Len(Self.basis.elems)
    IN CASE Probe = StringD("size") -> result = Ret(wrapperValue(I(n)))
         [] Probe = StringD("first") ->
              /\ result = arrayValue_IndexValue(Self, wrapperValue(I(0)))
              /\ n = 0 => result = Ret(nilValue)
              /\ n > 0 => result = ValueOf(Self.basis.elems[1])
         [] Probe = StringD("last") ->
              /\ result = arrayValue_IndexValue(Self, wrapperValue(I(-1)))
              /\ n = 0 => result = Ret(nilValue)
              /\ n > 0 => result = ValueOf(Self.basis.elems[n])
         [] OTHER -> result = Ret(nilValue)

\* last of a sequence of several elements, whose last differs from its first
C10_Witness ==
  /\ op = "arrayValue.PropertyValue"
  /\ Probe = StringD("last")
  /\ Len(Self.basis.elems) = MaxLen
  /\ result = Ret(wrapperValue(I(20)))
  /\ Self.basis.elems[1] = I(10)

====
